---- MODULE Spec2Model ----
(***************************************************************************)
(* Model of the JSON front end: TokenStream (src/src/token.rs) and Parser  *)
(* (src/src/parser.rs).  The source text is a sequence of bytes, each byte *)
(* written as a one-character string ("e1", "e2" are the two bytes of a    *)
(* non-ASCII character).  usize positions are 0-based as in the code.      *)
(***************************************************************************)
EXTENDS Integers, Sequences, FiniteSets, TLC

VARIABLES source, pointer, line, op, res, pc, result, ret, entry

vars == <<source, pointer, line, op, res, pc, result, ret, entry>>

-----------------------------------------------------------------------------
(* Bytes and character classes *)

Lower == {"a","b","c","d","e","f","g","h","i","j","k","l","m",
          "n","o","p","q","r","s","t","u","v","w","x","y","z"}

Upper == {"A","B","C","D","E","F","G","H","I","J","K","L","M",
          "N","O","P","Q","R","S","T","U","V","W","X","Y","Z"}

Digits == <<"0","1","2","3","4","5","6","7","8","9">>

is_ascii_alphabetic(c) == c \in Lower \cup Upper

is_ascii_digit(c) == \E i \in 1..Len(Digits) : Digits[i] = c

DigitVal(c) == (CHOOSE i \in 1..Len(Digits) : Digits[i] = c) - 1

\* The two bytes of one non-ASCII character (lead byte, continuation byte).
Utf8Lead == "e1"

Utf8Cont == "e2"

\* std::str::from_utf8 on a byte slice of a valid &str: the slice is valid
\* exactly when it cuts no multi-byte character.
from_utf8_ok(bytes) ==
    \A i \in 1..Len(bytes) :
        /\ bytes[i] = Utf8Lead => i < Len(bytes) /\ bytes[i + 1] = Utf8Cont
        /\ bytes[i] = Utf8Cont => i > 1 /\ bytes[i - 1] = Utf8Lead

\* str::parse::<f64> of a digit run: its value (exact below 2^53); an empty
\* lexeme does not parse.
RECURSIVE NumVal(_)
NumVal(ds) ==
    IF ds = <<>> THEN 0
    ELSE 10 * NumVal(SubSeq(ds, 1, Len(ds) - 1)) + DigitVal(ds[Len(ds)])

-----------------------------------------------------------------------------
(* Results: Token, ParseError, and a panic (index out of bounds) *)

\* Token { kind, line }; text is the payload of TokenKind::String, num the
\* payload of TokenKind::Number; start/end are the lexeme's byte span (the
\* locals `start` and `self.pointer` of the tokenize functions).
Token(kind, text, num, l, s, e) ==
    [tag |-> "Token", kind |-> kind, text |-> text, num |-> num,
     line |-> l, start |-> s, end |-> e]

\* ParseError { line, kind }
ParseError(l, kind) ==
    [tag |-> "Err", kind |-> kind, text |-> <<>>, num |-> 0,
     line |-> l, start |-> 0, end |-> 0]

\* An index or slice out of range aborts the thread.
Panic ==
    [tag |-> "Panic", kind |-> "IndexOutOfBounds", text |-> <<>>, num |-> 0,
     line |-> 0, start |-> 0, end |-> 0]

NoResult ==
    [tag |-> "None", kind |-> "None", text |-> <<>>, num |-> 0,
     line |-> 0, start |-> 0, end |-> 0]

\* What a &mut self method leaves behind: its return value and the fields.
Out(r, p, l) == [res |-> r, pointer |-> p, line |-> l]

-----------------------------------------------------------------------------
(* TokenStream *)

end_of_stream(src, p) == ~(Len(src) > p)

InBounds(src, p) == p >= 0 /\ p < Len(src)

\* self.source.as_bytes()[self.pointer]; callers test InBounds for the panic.
char_at_pointer(src, p) == src[p + 1]

\* &bytes[a..b] (b exclusive)
SliceOk(src, a, b) == a <= b /\ b <= Len(src)

Slice(src, a, b) == SubSeq(src, a + 1, b)

\* Faulty variant: the token is built but the pointer is not advanced.
single_token_stuck(src, p, l, kind) == Out(Token(kind, <<>>, 0, l, p, p + 1), p, l)

single_token(src, p, l, kind) == Out(Token(kind, <<>>, 0, l, p, p + 1), p + 1, l)

\* while !end_of_stream() && char_at_pointer().is_ascii_alphabetic()
RECURSIVE LiteralLoop(_, _)
LiteralLoop(src, p) ==
    IF ~end_of_stream(src, p) /\ is_ascii_alphabetic(char_at_pointer(src, p))
    THEN LiteralLoop(src, p + 1)
    ELSE p

\* Faulty variant: the lexeme is matched with starts_with instead of equality.
tokenize_literal_prefix(src, p, l) ==
    LET q == LiteralLoop(src, p)
        lex == Slice(src, p, q)
        Starts(k) == Len(lex) >= Len(k) /\ SubSeq(lex, 1, Len(k)) = k
    IN  IF Starts(<<"t","r","u","e">>)
        THEN Out(Token("True", <<>>, 0, l, p, q), q, l)
        ELSE IF Starts(<<"f","a","l","s","e">>)
        THEN Out(Token("False", <<>>, 0, l, p, q), q, l)
        ELSE IF Starts(<<"n","u","l","l">>)
        THEN Out(Token("Null", <<>>, 0, l, p, q), q, l)
        ELSE Out(ParseError(l, "InvalidValue"), q, l)

tokenize_literal(src, p, l) ==
    LET q == LiteralLoop(src, p)
        bool_lexeme == Slice(src, p, q)
    IN  IF ~SliceOk(src, p, q) THEN Out(Panic, q, l)
        ELSE IF ~from_utf8_ok(bool_lexeme)
        THEN Out(ParseError(l, "InvalidString"), q, l)
        ELSE IF bool_lexeme = <<"t","r","u","e">>
        THEN Out(Token("True", <<>>, 0, l, p, q), q, l)
        ELSE IF bool_lexeme = <<"f","a","l","s","e">>
        THEN Out(Token("False", <<>>, 0, l, p, q), q, l)
        ELSE IF bool_lexeme = <<"n","u","l","l">>
        THEN Out(Token("Null", <<>>, 0, l, p, q), q, l)
        ELSE Out(ParseError(l, "InvalidValue"), q, l)

\* while !end_of_stream() && char_at_pointer().is_ascii_digit()
RECURSIVE NumberLoop(_, _)
NumberLoop(src, p) ==
    IF ~end_of_stream(src, p) /\ is_ascii_digit(char_at_pointer(src, p))
    THEN NumberLoop(src, p + 1)
    ELSE p

tokenize_number(src, p, l) ==
    LET q == NumberLoop(src, p)
        number_lexeme == Slice(src, p, q)
    IN  IF ~SliceOk(src, p, q) THEN Out(Panic, q, l)
        ELSE IF ~from_utf8_ok(number_lexeme)
        THEN Out(ParseError(l, "InvalidString"), q, l)
        ELSE IF number_lexeme = <<>>
        THEN Out(ParseError(l, "InvalidNumber"), q, l)
        ELSE Out(Token("Number", <<>>, NumVal(number_lexeme), l, p, q), q, l)

\* Faulty variant: the loop has no early return on '\n'.
RECURSIVE StringLoop_multiline(_, _)
StringLoop_multiline(src, p) ==
    IF ~end_of_stream(src, p) /\ char_at_pointer(src, p) # "\""
    THEN StringLoop_multiline(src, p + 1)
    ELSE [at |-> p, newline |-> FALSE]

\* The while loop of tokenize_string from position p: where it stops, and
\* whether it stopped by the early return on '\n'.
RECURSIVE StringLoop(_, _)
StringLoop(src, p) ==
    IF ~end_of_stream(src, p) /\ char_at_pointer(src, p) # "\""
    THEN IF char_at_pointer(src, p) = "\n"
         THEN [at |-> p, newline |-> TRUE]
         ELSE StringLoop(src, p + 1)
    ELSE [at |-> p, newline |-> FALSE]

\* Faulty variant: no end_of_stream() test after the loop.
tokenize_string_unchecked(src, p, l) ==
    LET start == p
        stop == StringLoop(src, p + 1)
        q == stop.at
    IN  IF stop.newline THEN Out(ParseError(l, "UnterminatedString"), q, l)
        ELSE IF ~SliceOk(src, start, q + 1) THEN Out(Panic, q, l)
        ELSE Out(Token("String", Slice(src, start, q + 1), 0, l, start, q + 1),
                 q + 1, l)

\* Faulty variant: tabs and carriage returns inside the string advance the line.
tokenize_string_counting(src, p, l) ==
    LET start == p
        stop == StringLoop(src, p + 1)
        q == stop.at
        n == Cardinality({i \in (start + 2)..q : src[i] \in {"\r", "\t"}})
    IN  IF stop.newline THEN Out(ParseError(l, "UnterminatedString"), q, l)
        ELSE IF end_of_stream(src, q)
        THEN Out(ParseError(l, "UnterminatedString"), q, l)
        ELSE Out(Token("String", Slice(src, start, q + 1), 0, l, start, q + 1),
                 q + 1, l + n)

tokenize_string(src, p, l) ==
    LET start == p
        stop == StringLoop(src, p + 1)
        q == stop.at
    IN  IF stop.newline THEN Out(ParseError(l, "UnterminatedString"), q, l)
        ELSE IF end_of_stream(src, q)
        THEN Out(ParseError(l, "UnterminatedString"), q, l)
        ELSE IF ~SliceOk(src, start, q + 1) THEN Out(Panic, q, l)
        ELSE IF ~from_utf8_ok(Slice(src, start, q + 1))
        THEN Out(ParseError(l, "InvalidString"), q, l)
        ELSE Out(Token("String", Slice(src, start, q + 1), 0, l, start, q + 1),
                 q + 1, l)

SingleKind(c) ==
    CASE c = "{" -> "LeftCurlyBracket"
      [] c = "}" -> "RightCurlyBracket"
      [] c = "[" -> "LeftSquareBracket"
      [] c = "]" -> "RightSquareBracket"
      [] c = "," -> "Comma"
      [] c = ":" -> "Colon"

\* Faulty variant: the arm lacks '\r'.
LineArm_no_cr(c) == c \in {"\n", "\t"}

\* The match arm '\n' | '\r' | '\t' of next
LineArm(c) == c \in {"\n", "\r", "\t"}

RECURSIVE next(_, _, _)
next(src, p, l) ==
    IF end_of_stream(src, p) THEN Out(ParseError(l, "EndOfStream"), p, l)
    ELSE IF ~InBounds(src, p) THEN Out(Panic, p, l)
    ELSE LET c == char_at_pointer(src, p)
         IN  IF c \in {"{", "}", "[", "]", ",", ":"}
             THEN single_token(src, p, l, SingleKind(c))
             ELSE IF c = "\"" THEN tokenize_string(src, p, l)
             ELSE IF c = " " THEN next(src, p + 1, l)
             ELSE IF is_ascii_digit(c) THEN tokenize_number(src, p, l)
             ELSE IF is_ascii_alphabetic(c) THEN tokenize_literal(src, p, l)
             ELSE IF LineArm(c) THEN next(src, p + 1, l + 1)
             ELSE Out(ParseError(l, "InvalidToken"), p, l)

\* Faulty variant: the line is not restored.
peek_keeps_line(src, p, l) ==
    LET r == next(src, p, l)
    IN  Out(r.res, p, r.line)

peek(src, p, l) ==
    LET previous_pointer == p
        previous_line == l
        r == next(src, p, l)
    IN  Out(r.res, previous_pointer, previous_line)

-----------------------------------------------------------------------------
(* Parser *)

\* ast::Primitive
Primitive(kind, num, text, bool) ==
    [kind |-> kind, num |-> num, text |-> text, bool |-> bool]

\* Result<Vec<Primitive>>: on Err the vector built so far is dropped.
Ok(vec) == [tag |-> "Ok", vec |-> vec, err |-> NoResult]

Err(e) == [tag |-> "Err", vec |-> <<>>, err |-> e]

NoReturn == [tag |-> "None", vec |-> <<>>, err |-> NoResult]

\* Faulty variant: a token that is no primitive is read as null.
PrimitiveOf_lenient(token) ==
    [ok |-> TRUE,
     prim |-> CASE token.kind = "String" -> Primitive("String", 0, token.text, FALSE)
                [] token.kind = "Number" -> Primitive("Number", token.num, <<>>, FALSE)
                [] token.kind = "True" -> Primitive("Boolean", 0, <<>>, TRUE)
                [] token.kind = "False" -> Primitive("Boolean", 0, <<>>, FALSE)
                [] OTHER -> Primitive("Null", 0, <<>>, FALSE),
     err |-> NoResult]

\* The match of parse_primitive on token.kind; ok = FALSE carries the error.
PrimitiveOf(token) ==
    CASE token.kind = "String" ->
           [ok |-> TRUE, prim |-> Primitive("String", 0, token.text, FALSE),
            err |-> NoResult]
      [] token.kind = "Number" ->
           [ok |-> TRUE, prim |-> Primitive("Number", token.num, <<>>, FALSE),
            err |-> NoResult]
      [] token.kind = "True" ->
           [ok |-> TRUE, prim |-> Primitive("Boolean", 0, <<>>, TRUE),
            err |-> NoResult]
      [] token.kind = "False" ->
           [ok |-> TRUE, prim |-> Primitive("Boolean", 0, <<>>, FALSE),
            err |-> NoResult]
      [] token.kind = "Null" ->
           [ok |-> TRUE, prim |-> Primitive("Null", 0, <<>>, FALSE),
            err |-> NoResult]
      [] OTHER ->
           [ok |-> FALSE, prim |-> Primitive("Null", 0, <<>>, FALSE),
            err |-> ParseError(token.line, "NotAPrimitive")]

\* let token = self.ts.next()?; match token.kind { ... }
parse_primitive(src, p, l) ==
    LET o == next(src, p, l)
        m == PrimitiveOf(o.res)
    IN  IF o.res.tag # "Token"
        THEN [ok |-> FALSE, prim |-> Primitive("Null", 0, <<>>, FALSE),
              err |-> o.res, pointer |-> o.pointer, line |-> o.line]
        ELSE [ok |-> m.ok, prim |-> m.prim, err |-> m.err,
              pointer |-> o.pointer, line |-> o.line]

-----------------------------------------------------------------------------
(* Inputs *)

\* How many fragments a generated source text is made of.
MaxPieces == 3

\* Lexemes and fragments of lexemes the generated source texts are made of.
Pieces ==
    { <<"t","r","u","e">>, <<"f","a","l","s","e">>,
      <<"t","r","u">>, <<"E">>,
      <<" ">>, <<"\n">>, <<"\t">>, <<"\r">>,
      <<"\"">>, <<"\"", "\t", "\"">>,
      <<"7">>, <<"0">>,
      <<"{">>, <<"}">>,
      <<"@">>, <<Utf8Lead, Utf8Cont>> }

RECURSIVE Concat(_)
Concat(ps) == IF ps = <<>> THEN <<>> ELSE Head(ps) \o Concat(Tail(ps))

Generated ==
    { Concat(ps) : ps \in UNION { [1..n -> Pieces] : n \in 0..MaxPieces } }

\* The inputs of the repository's own tests.
TestSources ==
    { <<",", ":", "{", "}", "[", "]">>,
      <<"\"","C","l","e","i","t","o","n","r","a","s","t","a","\"">>,
      <<"\"","C","l","e","i","t","o","n","r","a","s","t","a">>,
      <<"6","4">>,
      <<"t","r","u","e"," ","f","a","l","s","e"," ","n","u","l","l">>,
      <<"t","r","u","e"," ","f","a","l","s","e">>,
      <<"3","5"," ","\"","m","e","u","d","e","u","s","\""," ",
        "f","a","l","s","e"," ","n","u","l","l">> }

\* The inputs of the documented examples that the tests do not have.
Examples ==
    { <<"[", "]">>,
      <<"\"", "a", "b", "c">>,
      <<"3","5"," ","\"","x","\""," ","f","a","l","s","e"," ","n","u","l","l">> }

Sources == Generated \cup TestSources \cup Examples

-----------------------------------------------------------------------------
(* State machine *)

\* TokenStream::new(source); no Parser yet
Init ==
    /\ source \in Sources
    /\ pointer = 0
    /\ line = 1
    /\ op = "new"
    /\ res = NoResult
    /\ pc = "stream"
    /\ result = <<>>
    /\ ret = NoReturn
    /\ entry = -1

\* a caller's ts.next()
NextCall ==
    /\ pc = "stream"
    /\ res.tag # "Panic"
    /\ \E o \in {next(source, pointer, line)} :
           /\ pointer' = o.pointer
           /\ line' = o.line
           /\ res' = o.res
    /\ op' = "next"
    /\ UNCHANGED <<source, pc, result, ret, entry>>

\* a caller's ts.peek()
PeekCall ==
    /\ pc = "stream"
    /\ res.tag # "Panic"
    /\ \E o \in {peek(source, pointer, line)} :
           /\ pointer' = o.pointer
           /\ line' = o.line
           /\ res' = o.res
    /\ op' = "peek"
    /\ UNCHANGED <<source, pc, result, ret, entry>>

\* Parser::new(ts).parse() up to the loop: let mut result = Vec::new().
\* entry records the position the stream was at when parse() was called
\* (0 for a stream no next() has advanced; -1 while parse() was not called).
ParseCall ==
    /\ pc = "stream"
    /\ res.tag # "Panic"
    /\ pc' = "loop"
    /\ result' = <<>>
    /\ op' = "parse"
    /\ res' = NoResult
    /\ entry' = pointer
    /\ UNCHANGED <<source, pointer, line, ret>>

\* while !self.ts.end_of_stream() fails: Ok(result)
ParseReturn ==
    /\ pc = "loop"
    /\ end_of_stream(source, pointer)
    /\ ret' = Ok(result)
    /\ pc' = "done"
    /\ UNCHANGED <<source, pointer, line, op, res, result, entry>>

\* The loop body, r being what parse_primitive returned:
\* result.push(r?) or the early return of its error.
ParseBody(r) ==
    /\ pc = "loop"
    /\ ~end_of_stream(source, pointer)
    /\ pointer' = r.pointer
    /\ line' = r.line
    /\ IF r.ok
       THEN /\ result' = Append(result, r.prim)
            /\ res' = NoResult
            /\ UNCHANGED <<pc, ret>>
       ELSE /\ ret' = Err(r.err)
            /\ res' = r.err
            /\ pc' = "done"
            /\ UNCHANGED result
    /\ UNCHANGED <<source, op, entry>>

\* One test of the while condition of parse, and the return or the body.
ParseIter ==
    \/ ParseReturn
    \/ /\ pc = "loop"
       /\ ~end_of_stream(source, pointer)
       /\ \E r \in {parse_primitive(source, pointer, line)} : ParseBody(r)

Next == NextCall \/ PeekCall

Spec == Init /\ [][Next]_vars

ParseNext == NextCall \/ PeekCall \/ ParseCall \/ ParseIter

ParseSpec == Init /\ [][ParseNext]_vars

\* parse() is a synchronous loop: once called it runs until it returns.
FairParseSpec == ParseSpec /\ WF_vars(ParseIter)

-----------------------------------------------------------------------------
(* Reference notions the properties are stated with *)

Blank(c) == c \in {" ", "\n", "\r", "\t"}

LineBreak(c) == c \in {"\n", "\r", "\t"}

Letter(c) == c \in Lower \cup Upper

\* The first position at or after p that holds no whitespace (Len(src) if
\* none): where a next() called at p dispatches.
FirstNonBlank(src, p) ==
    CHOOSE d \in p..Len(src) :
        /\ \A i \in (p + 1)..d : Blank(src[i])
        /\ d = Len(src) \/ ~Blank(src[d + 1])

\* The end (exclusive) of the maximal run of letters that starts at d.
LetterRunEnd(src, d) ==
    CHOOSE e \in d..Len(src) :
        /\ \A i \in (d + 1)..e : Letter(src[i])
        /\ e = Len(src) \/ ~Letter(src[e + 1])

\* Position d holds an opening quote that no quote closes before a newline
\* or the end of the input.
Unclosed(src, d) ==
    /\ d < Len(src)
    /\ src[d + 1] = "\""
    /\ ~\E j \in (d + 2)..Len(src) :
           /\ src[j] = "\""
           /\ \A k \in (d + 2)..(j - 1) : src[k] # "\n"

\* The newline, carriage-return and tab characters among the first n bytes.
BreaksBefore(src, n) == Cardinality({i \in 1..n : LineBreak(src[i])})

\* Those of them that lie outside string literals, reading bytes i..n with
\* `inside` telling whether byte i follows an opening quote not yet closed
\* (a newline ends an unclosed literal and is itself outside).
RECURSIVE BreaksOutside(_, _, _, _)
BreaksOutside(src, i, n, inside) ==
    IF i > n THEN 0
    ELSE IF inside
    THEN IF src[i] = "\"" THEN BreaksOutside(src, i + 1, n, FALSE)
         ELSE IF src[i] = "\n" THEN 1 + BreaksOutside(src, i + 1, n, FALSE)
         ELSE BreaksOutside(src, i + 1, n, TRUE)
    ELSE IF src[i] = "\"" THEN BreaksOutside(src, i + 1, n, TRUE)
         ELSE (IF LineBreak(src[i]) THEN 1 ELSE 0)
              + BreaksOutside(src, i + 1, n, FALSE)

-----------------------------------------------------------------------------
(* Properties of TokenStream, checked under Spec *)

\* C3: peek() leaves pointer and line as they were, whatever it returns; a
\* peek() or next() that follows a peek() returns the same result, and that
\* next() consumes exactly the peeked token: the whitespace before it and
\* its lexeme.
PeekHasNoEffect ==
    [][ /\ op' = "peek" => pointer' = pointer /\ line' = line
        /\ op = "peek" /\ op' \in {"peek", "next"} => res' = res
        /\ op = "peek" /\ op' = "next" /\ res.tag = "Token" =>
              /\ pointer' = res.end
              /\ \A i \in (pointer + 1)..res.start : Blank(source[i]) ]_vars

\* A peek() looked past a line break at a token and left the stream behind it.
PeekHasNoEffectWitness ==
    /\ op = "peek"
    /\ res.tag = "Token"
    /\ res.line > line
    /\ res.start > pointer

\* C4: when only whitespace (or nothing) is left, next() returns EndOfStream;
\* once EndOfStream was returned, every later next() and peek() returns it.
EndOfStreamAtExhaustion ==
    [][ /\ op' = "next" /\ (\A i \in (pointer + 1)..Len(source) : Blank(source[i]))
              => res'.tag = "Err" /\ res'.kind = "EndOfStream"
        /\ res.kind = "EndOfStream" /\ op' \in {"next", "peek"}
              => res'.tag = "Err" /\ res'.kind = "EndOfStream" ]_vars

\* next() returned EndOfStream after a token and the whitespace behind it.
EndOfStreamWitness ==
    /\ op = "next"
    /\ res.kind = "EndOfStream"
    /\ pointer = Len(source)
    /\ Len(source) >= 2
    /\ ~Blank(source[1])
    /\ Blank(source[Len(source)])

\* C5 as claimed: the line of a token next() returns is 1 + the number of
\* newline, carriage-return and tab characters before the token.
LineCountsEveryBreak ==
    op = "next" /\ res.tag = "Token" =>
        res.line = 1 + BreaksBefore(source, res.start)

\* C5 as amended: the line of a token next() returns is 1 + the number of
\* newline, carriage-return and tab characters before the token that lie
\* outside string literals; spaces never count.
LineCountsBreaksOutsideStrings ==
    op = "next" /\ res.tag = "Token" =>
        res.line = 1 + BreaksOutside(source, 1, res.start, FALSE)

\* next() returned a token that follows a line break and a string literal
\* holding a tab.
LineCountWitness ==
    /\ op = "next"
    /\ res.tag = "Token"
    /\ res.line = 2
    /\ BreaksBefore(source, res.start) = 2

\* C6: a next() that dispatches on an opening quote which no quote closes
\* before a newline or the end of input returns UnterminatedString at the
\* line the string starts on, and no token.
UnterminatedStringReported ==
    [][ op' = "next" /\ Unclosed(source, FirstNonBlank(source, pointer)) =>
          res' = ParseError(
                   1 + BreaksOutside(source, 1, FirstNonBlank(source, pointer), FALSE),
                   "UnterminatedString") ]_vars

\* The test's input: "Cleitonrasta without its closing quote, at line 1.
UnterminatedStringWitness ==
    /\ source = <<"\"","C","l","e","i","t","o","n","r","a","s","t","a">>
    /\ op = "next"
    /\ res = ParseError(1, "UnterminatedString")

\* C8: pointer stays within 0..len(source) and no call reads the buffer out
\* of bounds (none panics), for any input and any calls of next() and peek().
NoOutOfBounds ==
    /\ pointer \in 0..Len(source)
    /\ res.tag # "Panic"

\* A lone opening quote: the scan ran to the end of the input.
NoOutOfBoundsWitness ==
    /\ source = <<"\"">>
    /\ op = "next"
    /\ res.kind = "UnterminatedString"
    /\ pointer = Len(source)

\* C9: a next() that dispatches on a letter consumes the maximal run of
\* letters; the run "true", "false" or "null" gives the token True, False
\* or Null, any other run InvalidValue at the current line.  So the calls
\* of next() on "true false null" return True, False, Null, then EndOfStream.
LiteralRule ==
    [][ /\ op' = "next" =>
            LET d == FirstNonBlank(source, pointer)
                e == LetterRunEnd(source, d)
                run == SubSeq(source, d + 1, e)
            IN  d < Len(source) /\ Letter(source[d + 1]) =>
                  /\ pointer' = e
                  /\ run = <<"t","r","u","e">> =>
                        res'.tag = "Token" /\ res'.kind = "True"
                  /\ run = <<"f","a","l","s","e">> =>
                        res'.tag = "Token" /\ res'.kind = "False"
                  /\ run = <<"n","u","l","l">> =>
                        res'.tag = "Token" /\ res'.kind = "Null"
                  /\ run \notin {<<"t","r","u","e">>, <<"f","a","l","s","e">>,
                                 <<"n","u","l","l">>} =>
                        res' = ParseError(line', "InvalidValue")
        /\ op' = "next"
             /\ source = <<"t","r","u","e"," ","f","a","l","s","e"," ","n","u","l","l">>
             => <<res'.kind, res'.line, pointer'>> \in
                   {<<"True", 1, 4>>, <<"False", 1, 10>>, <<"Null", 1, 15>>,
                    <<"EndOfStream", 1, 15>>} ]_vars

\* A keyword with one more letter attached is rejected as a whole.
LiteralRuleWitness ==
    /\ source = <<"t","r","u","e","E">>
    /\ op = "next"
    /\ res = ParseError(1, "InvalidValue")
    /\ pointer = 5

-----------------------------------------------------------------------------
(* Reference notions for the parser's properties *)

\* The words of a text: its maximal runs of bytes that are not whitespace,
\* as <<first, last>> index pairs.
Words(src) ==
    { w \in (1..Len(src)) \X (1..Len(src)) :
        /\ w[1] <= w[2]
        /\ \A i \in w[1]..w[2] : ~Blank(src[i])
        /\ w[1] = 1 \/ Blank(src[w[1] - 1])
        /\ w[2] = Len(src) \/ Blank(src[w[2] + 1]) }

IsDigitRun(w) == w # <<>> /\ \A i \in 1..Len(w) : is_ascii_digit(w[i])

IsQuoted(w) ==
    /\ Len(w) >= 2
    /\ w[1] = "\""
    /\ w[Len(w)] = "\""
    /\ \A i \in 2..(Len(w) - 1) : w[i] # "\""

IsKeyword(w) ==
    w \in {<<"t","r","u","e">>, <<"f","a","l","s","e">>, <<"n","u","l","l">>}

\* A text of primitive lexemes set apart by whitespace, which may also lead,
\* trail, or be all there is.
IsPrimitiveText(src) ==
    \A w \in Words(src) :
        LET lex == SubSeq(src, w[1], w[2])
        IN  IsDigitRun(lex) \/ IsQuoted(lex) \/ IsKeyword(lex)

PrimitiveFor(lex) ==
    IF IsDigitRun(lex) THEN Primitive("Number", NumVal(lex), <<>>, FALSE)
    ELSE IF IsQuoted(lex) THEN Primitive("String", 0, lex, FALSE)
    ELSE IF lex = <<"t","r","u","e">> THEN Primitive("Boolean", 0, <<>>, TRUE)
    ELSE IF lex = <<"f","a","l","s","e">> THEN Primitive("Boolean", 0, <<>>, FALSE)
    ELSE Primitive("Null", 0, <<>>, FALSE)

\* One Primitive per word, in source order.
ExpectedPrimitives(src) ==
    LET ws == Words(src)
        nth(k) == CHOOSE w \in ws : Cardinality({v \in ws : v[1] < w[1]}) = k - 1
    IN  [k \in 1..Cardinality(ws) |->
            PrimitiveFor(SubSeq(src, nth(k)[1], nth(k)[2]))]

\* ast::Container::Object(vec![]) and ast::Container::Array(vec![])
EmptyObject == Primitive("Object", 0, <<>>, FALSE)

EmptyArray == Primitive("Array", 0, <<>>, FALSE)

\* Scanning a whole buffer left to right: the tokens up to the first result
\* that is no token, and that result (EndOfStream when the scan succeeds).
RECURSIVE ScanFrom(_, _, _, _)
ScanFrom(src, p, l, toks) ==
    LET o == next(src, p, l)
    IN  IF o.res.tag = "Token"
        THEN ScanFrom(src, o.pointer, o.line, Append(toks, o.res))
        ELSE [tokens |-> toks, stop |-> o.res]

Scan(src) == ScanFrom(src, 0, 1, <<>>)

ScanFails(src) == Scan(src).stop.kind # "EndOfStream"

PrimitiveKinds == {"String", "Number", "True", "False", "Null"}

\* The tokens of a scan that are no primitives, by index.
Structural(toks) == {i \in 1..Len(toks) : toks[i].kind \notin PrimitiveKinds}

\* parse() was called on a stream nothing had advanced, and has returned.
Parsed == pc = "done" /\ entry = 0

-----------------------------------------------------------------------------
(* Properties of Parser, checked under ParseSpec *)

\* C1: for a text of primitive lexemes and whitespace, wherever the
\* whitespace stands, parse returns Ok with one Primitive per lexeme, in
\* source order.
ParseYieldsPrimitives ==
    Parsed /\ IsPrimitiveText(source) => ret = Ok(ExpectedPrimitives(source))

\* C2: parsing "{}" succeeds and yields an empty Object, parsing "[]"
\* succeeds and yields an empty Array.
ParseYieldsContainers ==
    Parsed =>
        /\ source = <<"{", "}">> => ret = Ok(<<EmptyObject>>)
        /\ source = <<"[", "]">> => ret = Ok(<<EmptyArray>>)

\* C7 as claimed: when scanning the whole buffer would fail, parse fails
\* with that first scan error, kind and line.
ParseFailsWithScanError ==
    Parsed /\ ScanFails(source) => ret = Err(Scan(source).stop)

\* C7 as amended: when scanning the whole buffer would fail, parse fails and
\* returns no values; it fails with the first scan error when only primitive
\* tokens come before the invalid lexeme, and with NotAPrimitive at the line
\* of the first token that is no primitive otherwise.
ParseFailsWhenScanFails ==
    Parsed /\ ScanFails(source) =>
        LET sc == Scan(source)
            st == Structural(sc.tokens)
            first == CHOOSE i \in st : \A j \in st : i <= j
        IN  IF st = {}
            THEN ret = Err(sc.stop)
            ELSE ret = Err(ParseError(sc.tokens[first].line, "NotAPrimitive"))

\* parse met an invalid lexeme after a primitive and dropped what it had.
ParseFailsWitness ==
    /\ Parsed
    /\ ScanFails(source)
    /\ Len(Scan(source).tokens) >= 1
    /\ Structural(Scan(source).tokens) = {}
    /\ result # <<>>
    /\ ret.tag = "Err"
    /\ ret.vec = <<>>

\* A next() that returned a token: a caller's, or the one parse_primitive made.
ReturnedToken ==
    \/ op' = "next" /\ pc' = "stream" /\ res'.tag = "Token"
    \/ pc = "loop" /\ Len(result') > Len(result)
    \/ pc = "loop" /\ pc' = "done" /\ ret'.err.kind = "NotAPrimitive"

\* C10: a next() that returns a token leaves pointer strictly greater, and
\* at most len(source); line never decreases.  So parse terminates: every
\* pass of its loop either returns or moves pointer forward within
\* len(source), the loop is never blocked, and parse has made at most
\* len(source) calls of next() that returned a token.
ParseTerminates ==
    /\ [][ /\ ReturnedToken => pointer' > pointer /\ pointer' <= Len(source)
           /\ line' >= line
           /\ pc = "loop" => pc' = "done" \/ pointer' > pointer ]_vars
    /\ [](Len(result) + (IF ret.err.kind = "NotAPrimitive" THEN 1 ELSE 0)
            <= Len(source))
    /\ [](pc = "loop" =>
            \/ ENABLED ParseReturn
            \/ \E r \in {parse_primitive(source, pointer, line)} :
                   ENABLED ParseBody(r))

\* parse returned two values after two calls of next().
ParseTerminatesWitness ==
    /\ Parsed
    /\ ret.tag = "Ok"
    /\ Len(ret.vec) = 2
    /\ pointer = Len(source)

====
